---- MODULE Spec2Model ----
(***************************************************************************)
(* The interview conversation of TalentScout, as the repository holds it   *)
(* twice: the Streamlit candidate screener (1_Candidate_Screener.py, the   *)
(* script that runs, one action per script run of main) and the LangGraph  *)
(* nodes (interview_graph.py).  impl selects which of the two a behaviour  *)
(* follows.  The graph nodes neither append the user's turn nor ask the    *)
(* next question ("the UI will ask the next question"): for impl = "graph" *)
(* those turns are appended the way the screener's main appends them, and  *)
(* current_question_key is the question at tech_question_index, the key    *)
(* main uses.                                                              *)
(*                                                                         *)
(* Texts are strings; the numbered-list parse and strip are computed       *)
(* character by character.                                                 *)
(*                                                                         *)
(* Spec is one interview session under the sequencing of the screener's    *)
(* main.  LateSpec adds calls of analyze_answer_node on a concluded        *)
(* session.  SynthesizerSpec and SummarySpec run the question synthesizer  *)
(* and the summary synthesizer alone, on replies and answers of every      *)
(* shape.  StoreSpec is save_and_download_summary called by two concurrent *)
(* sessions.  WiredSpec starts the graph through the compiled              *)
(* interview_app, whose entry edge runs analyze_answer_node in the same     *)
(* invocation.  ResumeSpec is question generation on every outcome of the  *)
(* resume upload and of the retriever's lookups.  DashboardSpec is the     *)
(* recruiter dashboard (2_Recruiter_Dashboard.py, one action per script    *)
(* run) over the password file of auth.py.                                 *)
(***************************************************************************)
EXTENDS Integers, Sequences, FiniteSets, TLC

VARIABLES
    impl,                           \* "screener" | "graph"
    conversation_stage,             \* st.session_state.conversation_stage
    technical_questions,            \* list of question strings
    technical_answers,              \* dict: question text -> answer
    tech_question_index,            \* the cursor
    is_awaiting_follow_up_answer,   \* the follow-up flag
    messages,                       \* the transcript: list of {role, content}
    final_summary,                  \* the summary text, None until generated
    summaries,                      \* the summary records written to summaries/
    raised,                         \* the exception the last run ended with
    last_call,                      \* the last run: its operation and generation calls
    all_failed,                     \* no generation call has succeeded so far
    stuck_answers,                  \* the answer submissions that raised
    history,                        \* the answer submissions so far, and the last one
    probe,                          \* the reply the question synthesizer was given (SynthesizerSpec)
    store,                          \* the files of summaries/ under concurrent sessions (StoreSpec)
    writers,                        \* the concurrent sessions' calls of save_and_download_summary (StoreSpec)
    resume,                         \* the resume lookups and the prompt chosen from them (ResumeSpec)
    recruiter                       \* the recruiter dashboard: its session and the password file (DashboardSpec)

vars == <<impl, conversation_stage, technical_questions, technical_answers,
          tech_question_index, is_awaiting_follow_up_answer, messages,
          final_summary, summaries, raised, last_call, all_failed,
          stuck_answers, history, probe, store, writers, resume, recruiter>>

\* What the runs of one interview session leave alone: one session's writes
\* to summaries/ are listed in summaries.
aside == <<probe, store, writers, resume, recruiter>>

(* ------------------------------ bounds -------------------------------- *)

\* Most items in the numbered list the generation service returns.
MaxQuestions == 2
\* Most script runs of the screener in stage "concluding".
MaxRenders == 2
\* Most answer submissions that raise.
MaxStuckAnswers == 1
\* Most technologies in the candidate's tech stack.
MaxTechs == 2
\* The salts bcrypt.gensalt may draw.
MaxSalts == 2
\* Most positions the cursor is taken past the end of the questions by calls of
\* analyze_answer_node on a concluded session.
MaxLateAnswers == 1
\* The seconds of the clock at which a summary file may be named.
MaxSeconds == 2

(* ------------------------------ literals ------------------------------ *)

None == "<None>"
GenerationError == "<GenerationError>"
NoError == "none"

FallbackQuestion1 == "Could you describe a challenging project you've worked on with your listed technologies?"
FallbackQuestion2 == "How do you stay updated with the latest trends in your tech stack?"
EasierFallback == "Could you please describe a core concept related to your tech stack?"
NoAnswersSummary == "No technical answers were provided."
ScreenerSummaryError == "Could not generate AI summary due to an error."
GraphSummaryErrorPrefix == "Could not generate AI summary due to an error: "
IntroMessage == "Thank you for providing your details. Now, based on your tech stack, I have a few technical questions for you."
ConclusionMessage == "Thank you for your answers. That's all the questions I have for now. The hiring team will review your responses and get in touch with you regarding the next steps."
\* The follow-up answer is joined with a newline alone.
ScreenerFollowUpSeparator_unlabelled == "\n"

ScreenerFollowUpSeparator == "\nFollow-up Answer: "
GraphFollowUpSeparator == "\n\n*Follow-up Answer:*\n"
FollowUpPrefix == "Follow-up: "

fallback_questions == <<FallbackQuestion1, FallbackQuestion2>>

(* ------------------------- the generation service --------------------- *)

\* What the candidate may type.
UserInputs == {"I used profiling.", "cProfile."}
\* The error details a failed generation call carries.
ErrorDetails == {"quota exceeded"}

QuestionText(k) == "Q" \o ToString(k) \o "?"

RECURSIVE NumberedList(_)
NumberedList(k) ==
    IF k = 0 THEN ""
    ELSE NumberedList(k - 1) \o ToString(k) \o ". " \o QuestionText(k) \o " \n"

\* The texts the service returns for the question prompt: a numbered list of k
\* items, bare or after a line of introduction, or a text with no list in it.
QuestionResponses ==
    {NumberedList(k) : k \in 0..MaxQuestions}
        \cup {"Here are the questions:\n" \o NumberedList(k) : k \in 0..MaxQuestions}

EasierResponses == {" Easier?\n"}
FollowUpResponses == {" What tool did you use?\n"}
SummaryResponses == {" Overall Impression: solid.\n"}

\* The outcomes of the graph analyzer's generation call: the call raises, or the
\* parser returns a JSON object; a key that is missing has has_* = FALSE, a null
\* value is None.  The service is asked for one of three sentiments and may
\* answer with another word.
AnalysisFailure ==
    [raises |-> TRUE, has_sentiment |-> FALSE, sentiment |-> None,
     has_follow_up |-> FALSE, follow_up_question |-> None]

AnalysisResponses ==
    { [raises |-> FALSE, has_sentiment |-> TRUE, sentiment |-> "Confident",
       has_follow_up |-> TRUE, follow_up_question |-> "What tool did you use?"],
      [raises |-> FALSE, has_sentiment |-> TRUE, sentiment |-> "Neutral",
       has_follow_up |-> TRUE, follow_up_question |-> None],
      [raises |-> FALSE, has_sentiment |-> FALSE, sentiment |-> None,
       has_follow_up |-> TRUE, follow_up_question |-> ""],
      [raises |-> FALSE, has_sentiment |-> TRUE, sentiment |-> "Positive",
       has_follow_up |-> FALSE, follow_up_question |-> None] }

(* ------------------------------ strings ------------------------------- *)

Ch(s, i) == SubSeq(s, i, i)
IsSpace(c) == c \in {" ", "\n", "\t"}
IsDigit(c) == c \in {"0", "1", "2", "3", "4", "5", "6", "7", "8", "9"}

RECURSIVE lstrip(_)
lstrip(s) == IF Len(s) > 0 /\ IsSpace(Ch(s, 1)) THEN lstrip(SubSeq(s, 2, Len(s))) ELSE s

RECURSIVE rstrip(_)
rstrip(s) == IF Len(s) > 0 /\ IsSpace(Ch(s, Len(s))) THEN rstrip(SubSeq(s, 1, Len(s) - 1)) ELSE s

strip(s) == rstrip(lstrip(s))

\* The last index of the run of digits that starts at i.
RECURSIVE EndOfDigits(_, _)
EndOfDigits(s, i) ==
    IF i < Len(s) /\ IsDigit(Ch(s, i + 1)) THEN EndOfDigits(s, i + 1) ELSE i

\* The first index from i on that holds no whitespace (Len(s) + 1 if none).
RECURSIVE SkipSpace(_, _)
SkipSpace(s, i) ==
    IF i <= Len(s) /\ IsSpace(Ch(s, i)) THEN SkipSpace(s, i + 1) ELSE i

\* The index of the first newline from i on (Len(s) + 1 if none).
RECURSIVE EndOfLine(_, _)
EndOfLine(s, i) ==
    IF i <= Len(s) /\ Ch(s, i) # "\n" THEN EndOfLine(s, i + 1) ELSE i

\* re.findall(r'\d+\.\s*(.*)', s), scanning from index i.
RECURSIVE FindAllFrom(_, _)
FindAllFrom(s, i) ==
    IF i > Len(s) THEN <<>>
    ELSE IF IsDigit(Ch(s, i))
         THEN LET j == EndOfDigits(s, i)
              IN  IF j < Len(s) /\ Ch(s, j + 1) = "."
                  THEN LET k == SkipSpace(s, j + 2)
                           e == EndOfLine(s, k)
                       IN  <<SubSeq(s, k, e - 1)>> \o FindAllFrom(s, e)
                  ELSE FindAllFrom(s, j + 1)
         ELSE FindAllFrom(s, i + 1)

FindAll(s) == FindAllFrom(s, 1)

\* The items are kept as the regular expression captured them.
KeepAll(qs) == qs

StripAll(qs) == [i \in 1..Len(qs) |-> strip(qs[i])]

(* --------------------------- the generators --------------------------- *)

\* The question list for one outcome of the generation call.
generate_questions(response) ==
    IF response = GenerationError THEN fallback_questions
    ELSE LET questions == FindAll(response)
         IN  IF questions = <<>> THEN fallback_questions ELSE StripAll(questions)

\* generate_questions_node: the fallback list is stripped too.
generate_questions_node(response) ==
    IF response = GenerationError THEN StripAll(fallback_questions)
    ELSE LET questions == FindAll(response)
         IN  StripAll(IF questions = <<>> THEN fallback_questions ELSE questions)

generate_easier_question(response) ==
    IF response = GenerationError THEN EasierFallback ELSE strip(response)

\* generate_easier_question_node keeps the text as the service returned it.
easier_question_node_text(response) ==
    IF response = GenerationError THEN EasierFallback ELSE response

\* The except branch returns the error text as the follow-up.
generate_follow_up_question_unhandled(response) == FollowUpPrefix \o strip(response)

generate_follow_up_question(response) ==
    IF response = GenerationError THEN None ELSE FollowUpPrefix \o strip(response)

\* The except branch returns the literal of the empty case.
summarize_performance_wrong_literal(answers_empty, response) ==
    IF answers_empty \/ response = GenerationError THEN NoAnswersSummary
    ELSE strip(response)

summarize_performance(answers_empty, response) ==
    IF answers_empty THEN NoAnswersSummary
    ELSE IF response = GenerationError THEN ScreenerSummaryError
         ELSE strip(response)

\* The summary is generated whether or not there are answers.
generate_summary_node_unguarded(answers_empty, response, detail) ==
    IF response = GenerationError THEN GraphSummaryErrorPrefix \o detail ELSE response

generate_summary_node(answers_empty, response, detail) ==
    IF answers_empty THEN NoAnswersSummary
    ELSE IF response = GenerationError THEN GraphSummaryErrorPrefix \o detail
         ELSE response

\* The analyzer's sentiment and follow_up for one outcome of the generation call.
analysis_sentiment(analysis) ==
    IF analysis.raises THEN "N/A"
    ELSE IF analysis.has_sentiment THEN analysis.sentiment ELSE "N/A"

\* The except branch asks a follow-up of its own.
analysis_follow_up_on_error(analysis) ==
    IF analysis.raises THEN "Could you say more?"
    ELSE IF analysis.has_follow_up THEN analysis.follow_up_question ELSE None

analysis_follow_up(analysis) ==
    IF analysis.raises THEN None
    ELSE IF analysis.has_follow_up THEN analysis.follow_up_question ELSE None

\* The test is "is not None".
NotNone(s) == s # None

\* Python's truth of an optional string.
Truthy(s) == s # None /\ s # ""

(* ------------------------------ helpers ------------------------------- *)

Message(role, content) == [role |-> role, content |-> content]

Call(op, gens, failed) == [op |-> op, gens |-> gens, failed |-> failed]

\* The assignment is lost.
Put_unrecorded(d, key, value) == d

\* dict[key] = value
Put(d, key, value) == [k \in DOMAIN d \cup {key} |-> IF k = key THEN value ELSE d[k]]

EmptyDict == [k \in {} |-> None]

\* One answer submission: the branch that handled it ("main" or "follow_up"),
\* the follow-up the analyzer returned, and whether the run raised.  history
\* keeps the number of submissions, the number of follow-ups asked, the last
\* submission and the last one that ran to completion.
Advance(kind, follow_up, raises) == [kind |-> kind, follow_up |-> follow_up, raised |-> raises]

Record(kind, follow_up, raises) ==
    [calls |-> history.calls + 1,
     follow_ups |-> history.follow_ups + (IF Truthy(follow_up) THEN 1 ELSE 0),
     last |-> Advance(kind, follow_up, raises),
     done |-> IF raises THEN history.done ELSE Advance(kind, follow_up, raises)]

\* tech_question_index += 1
IncrementTwice(index) == index + 2

Increment(index) == index + 1

\* The new question is inserted before the old one.
InsertQuestion(questions, index, new_question) ==
    SubSeq(questions, 1, index) \o <<new_question>> \o SubSeq(questions, index + 1, Len(questions))

\* technical_questions[tech_question_index] = new_question
ReplaceQuestion(questions, index, new_question) ==
    [questions EXCEPT ![index + 1] = new_question]

\* messages[0] = message
ReplaceFirst(msgs, message) == [msgs EXCEPT ![1] = message]

\* messages[-1] = message
AppendInstead(msgs, message) == Append(msgs, message)

ReplaceLast(msgs, message) == [msgs EXCEPT ![Len(msgs)] = message]

(* ---------------------- the synthesizer's replies --------------------- *)

\* A reply of the generation service to the question prompt, by its shape: the
\* call fails, or the text is a preamble followed by k numbered items, each a
\* number, a mark, the question and a line end.
NoProbe == [ran |-> FALSE, failed |-> FALSE, preamble |-> "", k |-> 0, mark |-> "", tail |-> ""]

Preambles == {"", "Here are the questions:\n", "Sure!\n\n"}
Marks == {". ", ".", ") "}
Tails == {"\n", " \n"}

Probes ==
    [ran : {TRUE}, failed : {FALSE}, preamble : Preambles, k : 0..MaxQuestions,
     mark : Marks, tail : Tails]
        \cup {[ran |-> TRUE, failed |-> TRUE, preamble |-> "", k |-> 0, mark |-> "", tail |-> ""]}

RECURSIVE ProbeItems(_, _)
ProbeItems(p, k) ==
    IF k = 0 THEN ""
    ELSE ProbeItems(p, k - 1) \o ToString(k) \o p.mark \o QuestionText(k) \o p.tail

ResponseOf(p) == IF p.failed THEN GenerationError ELSE p.preamble \o ProbeItems(p, p.k)

(* --------------------------- the resume context ----------------------- *)

\* The technologies of the tech stack, in the order the candidate lists them.
TechNames == <<"Python", "Django", "React", "SQL">>
TechStacks == {[i \in 1..n |-> TechNames[i]] : n \in 1..MaxTechs}

\* What the form submission leaves in resume_retriever: no file was uploaded,
\* process_resume returned None, or process_resume returned a retriever.
Uploads == {"not_uploaded", "processing_failed", "processed"}
resume_retriever(upload) == IF upload = "processed" THEN "retriever" ELSE None

\* retriever.get_relevant_documents(tech): raises, returns no document, or
\* returns one document.
LookupOutcomes == {"raises", "no_docs", "docs"}
PageContent(tech) == "Built a service with " \o tech \o "."
ContextHeader(tech) == "Context from resume related to " \o tech \o ":\n"

\* One turn of the loop over the tech stack: what it adds to the context.
LookupContext(tech, outcome) ==
    IF outcome = "docs" THEN ContextHeader(tech) \o "- " \o PageContent(tech) \o "\n"
    ELSE ""

RECURSIVE CollectContext(_, _, _)
CollectContext(tech_stack, lookups, n) ==
    IF n = 0 THEN ""
    ELSE CollectContext(tech_stack, lookups, n - 1) \o LookupContext(tech_stack[n], lookups[n])

get_resume_context(tech_stack, retriever, lookups) ==
    IF retriever = None THEN "" ELSE CollectContext(tech_stack, lookups, Len(tech_stack))

\* The resume prompt is chosen whenever there is a retriever.
prompt_by_retriever(retriever, context) ==
    IF retriever # None THEN "resume" ELSE "generic"

\* generate_questions: "if resume_retriever: ... if context:", then "if not prompt:".
generate_questions_prompt(retriever, context) ==
    IF retriever # None /\ context # "" THEN "resume" ELSE "generic"

\* generate_questions_node: "if resume_context:".
generate_questions_node_prompt(retriever, context) ==
    IF context # "" THEN "resume" ELSE "generic"

NoResume ==
    [ran |-> FALSE, upload |-> "not_uploaded", tech_stack |-> <<>>, lookups |-> <<>>,
     context |-> "", prompt |-> None]

ResumeInputs ==
    UNION {[ran : {FALSE}, upload : Uploads, tech_stack : {tech_stack},
            lookups : [1..Len(tech_stack) -> LookupOutcomes],
            context : {""}, prompt : {None}] : tech_stack \in TechStacks}

(* ------------------------- the recruiter's password ------------------- *)

\* bcrypt uses at most the first 72 bytes of a password.
BcryptMaxBytes == 72
\* change_password_screen: the least length of a new password.
MinPasswordLength == 8

DefaultPassword == "password123"
\* A text of 72 characters (one byte each).
LongPrefix == "012345678901234567890123456789012345678901234567890123456789012345678901"

\* The passwords entered: none, the default, one of 7 characters, one of 13,
\* and two of 73 that differ in the last character only.
Passwords ==
    {"", DefaultPassword, "hunter2", "correct horse", LongPrefix \o "A", LongPrefix \o "B"}

\* The bcrypt library the deployment has installed: given more than 72 bytes,
\* hashpw and checkpw hash the first 72 (releases before 5.0) or raise
\* ValueError (from 5.0 on).
BcryptBuilds == {"truncates", "raises"}
Salts == 1..MaxSalts

\* The whole password is hashed.
BcryptKey_whole(password) == password

\* The bytes of the password that enter the hash.
BcryptKey(password) ==
    IF Len(password) > BcryptMaxBytes THEN SubSeq(password, 1, BcryptMaxBytes) ELSE password

TooLong(build, password) == build = "raises" /\ Len(password) > BcryptMaxBytes

\* bcrypt.hashpw(password, salt) and bcrypt.checkpw(password, hashed), where
\* they do not raise.
hashpw(password, salt) == [salt |-> salt, key |-> BcryptKey(password)]
checkpw(password, hashed) == hashpw(password, hashed.salt) = hashed

\* get_password_hash returns None: there is no .password.hash file.
NoHash == [salt |-> 0, key |-> ""]

\* check_password: the file after the call (the default password is set when
\* there is no file) and the result of checking against it.
StoredAfterCheck(stored, salt) ==
    IF stored = NoHash THEN hashpw(DefaultPassword, salt) ELSE stored

check_password(build, stored, password) ==
    IF TooLong(build, password) THEN "ValueError"
    ELSE IF checkpw(password, stored) THEN "accepted" ELSE "rejected"

\* The rejected password does not stop the run.
login_screen_no_stop(password, result) ==
    IF password = "" THEN [logged_in |-> FALSE, outcome |-> "stopped"]
    ELSE IF result = "accepted" THEN [logged_in |-> TRUE, outcome |-> "rendered"]
    ELSE IF result = "rejected" THEN [logged_in |-> FALSE, outcome |-> "rendered"]
    ELSE [logged_in |-> FALSE, outcome |-> "raised"]

\* login_screen: st.stop() on an empty and on a rejected password; the run goes
\* on to the summaries only when it returns.
login_screen(password, result) ==
    IF password = "" THEN [logged_in |-> FALSE, outcome |-> "stopped"]
    ELSE IF result = "accepted" THEN [logged_in |-> TRUE, outcome |-> "rendered"]
    ELSE IF result = "rejected" THEN [logged_in |-> FALSE, outcome |-> "stopped"]
    ELSE [logged_in |-> FALSE, outcome |-> "raised"]

\* One script run of the dashboard: what was entered and how the run ended.
Run(op, password, new, confirm, outcome) ==
    [op |-> op, password |-> password, new |-> new, confirm |-> confirm, outcome |-> outcome]

NoRecruiter ==
    [build |-> "truncates", logged_in |-> FALSE, hash |-> NoHash, loaded |-> FALSE,
     last |-> Run("none", "", "", "", "none")]

(* ------------------------- the summaries directory -------------------- *)

Sessions == {1, 2}

\* The candidates of the concurrent sessions: two of the same name, one whose
\* name differs from theirs by an underscore for the space, and one of another
\* name.
Candidates ==
    { [full_name |-> "Ann Lee", email |-> "ann@x.io"],
      [full_name |-> "Ann Lee", email |-> "a.lee@example.org"],
      [full_name |-> "Ann_Lee", email |-> "annlee@example.org"],
      [full_name |-> "Bob Roy", email |-> "bob@x.io"] }

Idle == [pc |-> "idle", full_name |-> "", email |-> "", second |-> 0]

\* str.replace(" ", "_")
RECURSIVE ReplaceSpaces(_)
ReplaceSpaces(name) ==
    IF name = "" THEN ""
    ELSE (IF Ch(name, 1) = " " THEN "_" ELSE Ch(name, 1))
             \o ReplaceSpaces(SubSeq(name, 2, Len(name)))

\* The name is taken as the form gave it.
file_name_unreplaced(second, full_name) == ToString(second) \o "_" \o full_name \o ".json"

\* f"{timestamp_str}_{candidate_name}.json"
file_name(second, full_name) ==
    ToString(second) \o "_" \o ReplaceSpaces(full_name) \o ".json"

\* json.dumps(summary_data), by the candidate's details in it.
json_string(w) == "{" \o w.full_name \o " <" \o w.email \o ">}"

\* A write of text at offset 0 of a file that holds old.
Overwrite(old, text) ==
    IF Len(old) > Len(text) THEN text \o SubSeq(old, Len(text) + 1, Len(old)) ELSE text

(* ------------------------------- Init --------------------------------- *)

Init ==
    /\ impl \in {"screener", "graph"}
    /\ conversation_stage = "gathering_info"
    /\ technical_questions = <<>>
    /\ technical_answers = EmptyDict
    /\ tech_question_index = 0
    /\ is_awaiting_follow_up_answer = FALSE
    /\ messages = <<>>
    /\ final_summary = None
    /\ summaries = <<>>
    /\ raised = NoError
    /\ last_call = Call("init", {}, {})
    /\ all_failed = TRUE
    /\ stuck_answers = 0
    /\ history = [calls |-> 0, follow_ups |-> 0,
                  last |-> Advance("none", None, FALSE),
                  done |-> Advance("none", None, FALSE)]
    /\ probe = NoProbe
    /\ store = EmptyDict
    /\ writers = [s \in Sessions |-> Idle]
    /\ resume = NoResume
    /\ recruiter = NoRecruiter

(* ------------------------ the candidate screener ---------------------- *)

\* main, stage "gathering_info": the form is submitted; a valid form moves on
\* to question generation, an invalid one shows its errors.
SubmitDetails ==
    /\ conversation_stage = "gathering_info"
    /\ \E is_valid \in BOOLEAN :
          conversation_stage' =
              IF is_valid THEN "generating_tech_questions" ELSE conversation_stage
    /\ raised' = NoError
    /\ last_call' = Call("submit_details", {}, {})
    /\ UNCHANGED <<stuck_answers, history, impl, technical_questions, technical_answers, tech_question_index,
                   is_awaiting_follow_up_answer, messages, final_summary, summaries,
                   all_failed>>
    /\ UNCHANGED aside

\* main, stage "generating_tech_questions", for one outcome of the generation call.
ScreenerStart(response) ==
    /\ impl = "screener"
    /\ conversation_stage = "generating_tech_questions"
    /\ LET questions == generate_questions(response)
       IN  /\ technical_questions' = questions
           /\ messages' = messages \o <<Message("assistant", IntroMessage),
                                        Message("assistant", questions[1])>>
           /\ last_call' = Call("start", {"questions"},
                                IF response = GenerationError THEN {"questions"} ELSE {})
           /\ all_failed' = (all_failed /\ response = GenerationError)
    /\ conversation_stage' = "in_tech_questions"
    /\ raised' = NoError
    /\ UNCHANGED <<stuck_answers, history, impl, technical_answers, tech_question_index,
                   is_awaiting_follow_up_answer, final_summary, summaries>>

ScreenerGenerateQuestions ==
    /\ \E response \in QuestionResponses \cup {GenerationError} : ScreenerStart(response)
    /\ UNCHANGED aside

\* main, the "Easier Question" button.
ScreenerEasierQuestion ==
    /\ impl = "screener"
    /\ conversation_stage = "in_tech_questions"
    /\ IF tech_question_index >= Len(technical_questions)
       THEN /\ raised' = "IndexError"
            /\ last_call' = Call("easier", {}, {})
            /\ UNCHANGED <<technical_questions, messages, all_failed>>
       ELSE \E response \in EasierResponses \cup {GenerationError} :
               LET new_question == generate_easier_question(response)
               IN  /\ technical_questions' =
                          ReplaceQuestion(technical_questions, tech_question_index, new_question)
                   /\ messages' =
                          ReplaceLast(messages, Message("assistant", new_question))
                   /\ last_call' = Call("easier", {"easier"},
                                        IF response = GenerationError THEN {"easier"} ELSE {})
                   /\ all_failed' = (all_failed /\ response = GenerationError)
                   /\ raised' = NoError
    /\ UNCHANGED <<stuck_answers, history, impl, conversation_stage, technical_answers, tech_question_index,
                   is_awaiting_follow_up_answer, final_summary, summaries>>
    /\ UNCHANGED aside

\* The question asked is the one just answered.
ScreenerAskNext_repeating(msgs, index, awaiting) ==
    /\ tech_question_index' = index
    /\ is_awaiting_follow_up_answer' = awaiting
    /\ IF ~awaiting
       THEN IF index < Len(technical_questions)
            THEN /\ messages' = Append(msgs, Message("assistant", technical_questions[index]))
                 /\ conversation_stage' = conversation_stage
            ELSE /\ conversation_stage' = "concluding"
                 /\ messages' = Append(msgs, Message("assistant", ConclusionMessage))
       ELSE /\ messages' = msgs
            /\ conversation_stage' = conversation_stage

\* main, lines 393-402: with the flag down, ask the next main question or conclude.
ScreenerAskNext(msgs, index, awaiting) ==
    /\ tech_question_index' = index
    /\ is_awaiting_follow_up_answer' = awaiting
    /\ IF ~awaiting
       THEN IF index < Len(technical_questions)
            THEN /\ messages' = Append(msgs, Message("assistant", technical_questions[index + 1]))
                 /\ conversation_stage' = conversation_stage
            ELSE /\ conversation_stage' = "concluding"
                 /\ messages' = Append(msgs, Message("assistant", ConclusionMessage))
       ELSE /\ messages' = msgs
            /\ conversation_stage' = conversation_stage

\* main, the chat input: one answer submission.
ScreenerAnswer ==
    /\ impl = "screener"
    /\ conversation_stage = "in_tech_questions"
    /\ \E prompt \in UserInputs :
        LET msgs == Append(messages, Message("user", prompt))
            question == technical_questions[tech_question_index + 1]
        IN  IF is_awaiting_follow_up_answer
            THEN IF question \in DOMAIN technical_answers
                 THEN /\ technical_answers' =
                            [technical_answers EXCEPT
                                ![question] = @ \o ScreenerFollowUpSeparator \o prompt]
                      /\ ScreenerAskNext(msgs, Increment(tech_question_index), FALSE)
                      /\ raised' = NoError
                      /\ last_call' = Call("answer_follow_up", {}, {})
                      /\ history' = Record("follow_up", None, FALSE)
                      /\ UNCHANGED <<all_failed, stuck_answers>>
                 ELSE \* technical_answers[last_question] raises KeyError
                      /\ stuck_answers < MaxStuckAnswers
                      /\ stuck_answers' = stuck_answers + 1
                      /\ messages' = msgs
                      /\ raised' = "KeyError"
                      /\ last_call' = Call("answer_follow_up", {}, {})
                      /\ history' = Record("follow_up", None, TRUE)
                      /\ UNCHANGED <<technical_answers, tech_question_index,
                                     is_awaiting_follow_up_answer, conversation_stage,
                                     all_failed>>
            ELSE \E response \in FollowUpResponses \cup {GenerationError} :
                    LET follow_up == generate_follow_up_question(response)
                    IN  /\ technical_answers' = Put(technical_answers, question, prompt)
                        /\ IF Truthy(follow_up)
                           THEN ScreenerAskNext(Append(msgs, Message("assistant", follow_up)),
                                                tech_question_index, TRUE)
                           ELSE ScreenerAskNext(msgs, Increment(tech_question_index),
                                                is_awaiting_follow_up_answer)
                        /\ history' = Record("main", follow_up, FALSE)
                        /\ raised' = NoError
                        /\ last_call' = Call("answer_main", {"analyzer"},
                                             IF response = GenerationError
                                             THEN {"analyzer"} ELSE {})
                        /\ all_failed' = (all_failed /\ response = GenerationError)
                        /\ UNCHANGED stuck_answers
    /\ UNCHANGED <<impl, technical_questions, final_summary, summaries>>
    /\ UNCHANGED aside

\* main, stage "concluding": every script run generates the summary and saves it.
ScreenerRenderConcluding ==
    /\ impl = "screener"
    /\ conversation_stage = "concluding"
    /\ Len(summaries) < MaxRenders
    /\ \E response \in SummaryResponses \cup {GenerationError} :
          LET answers_empty == DOMAIN technical_answers = {}
              ai_summary == summarize_performance(answers_empty, response)
          IN  /\ final_summary' = ai_summary
              /\ summaries' = Append(summaries, ai_summary)
              /\ last_call' =
                    IF answers_empty THEN Call("render_concluding", {}, {})
                    ELSE Call("render_concluding", {"summary"},
                              IF response = GenerationError THEN {"summary"} ELSE {})
              /\ all_failed' = (all_failed /\ (answers_empty \/ response = GenerationError))
    /\ raised' = NoError
    /\ UNCHANGED <<stuck_answers, history, impl, conversation_stage, technical_questions, technical_answers,
                   tech_question_index, is_awaiting_follow_up_answer, messages>>
    /\ UNCHANGED aside


(* --------------------------- the graph nodes -------------------------- *)

\* generate_questions_node, the graph's entry point; the first question is shown
\* as the screener shows it.
GraphStart(response) ==
    /\ impl = "graph"
    /\ conversation_stage = "generating_tech_questions"
    /\ LET questions == generate_questions_node(response)
       IN  /\ technical_questions' = questions
           /\ messages' = messages \o <<Message("assistant", IntroMessage),
                                        Message("assistant", questions[1])>>
           /\ last_call' = Call("start", {"questions"},
                                IF response = GenerationError THEN {"questions"} ELSE {})
           /\ all_failed' = (all_failed /\ response = GenerationError)
    /\ conversation_stage' = "in_tech_questions"
    /\ raised' = NoError
    /\ UNCHANGED <<stuck_answers, history, impl, technical_answers, tech_question_index,
                   is_awaiting_follow_up_answer, final_summary, summaries>>

GraphGenerateQuestions ==
    /\ \E response \in QuestionResponses \cup {GenerationError} : GraphStart(response)
    /\ UNCHANGED aside

\* generate_easier_question_node.
GraphEasierQuestion ==
    /\ impl = "graph"
    /\ conversation_stage = "in_tech_questions"
    /\ IF tech_question_index >= Len(technical_questions)
       THEN /\ raised' = "IndexError"
            /\ last_call' = Call("easier", {}, {})
            /\ UNCHANGED <<technical_questions, messages, all_failed>>
       ELSE \E response \in EasierResponses \cup {GenerationError} :
               LET new_question == easier_question_node_text(response)
               IN  /\ technical_questions' =
                          ReplaceQuestion(technical_questions, tech_question_index, new_question)
                   /\ messages' =
                          ReplaceLast(messages, Message("assistant", new_question))
                   /\ last_call' = Call("easier", {"easier"},
                                        IF response = GenerationError THEN {"easier"} ELSE {})
                   /\ all_failed' = (all_failed /\ response = GenerationError)
                   /\ raised' = NoError
    /\ UNCHANGED <<stuck_answers, history, impl, conversation_stage, technical_answers, tech_question_index,
                   is_awaiting_follow_up_answer, final_summary, summaries>>
    /\ UNCHANGED aside

\* should_continue and the edges of create_graph, after analyze_answer_node has
\* returned (answers, awaiting, index, msgs): pause for the follow-up answer, leave
\* the next question to the UI, or run generate_summary_node.
\* The cursor is not compared with the number of questions.
should_continue_eager(awaiting, index) ==
    IF awaiting THEN "END" ELSE "generate_summary"

should_continue(awaiting, index) ==
    IF awaiting THEN "END"
    ELSE IF index >= Len(technical_questions) THEN "generate_summary"
         ELSE "ask_next_question"

GraphContinue(answers, awaiting, index, msgs, op, gens, failed, follow_up) ==
    /\ technical_answers' = answers
    /\ history' = Record(IF op = "answer_main" THEN "main" ELSE "follow_up", follow_up, FALSE)
    /\ is_awaiting_follow_up_answer' = awaiting
    /\ tech_question_index' = index
    /\ raised' = NoError
    /\ UNCHANGED stuck_answers
    /\ LET route == should_continue(awaiting, index)
       IN  IF route = "generate_summary"
           THEN \E response \in SummaryResponses \cup {GenerationError}, detail \in ErrorDetails :
                   LET answers_empty == DOMAIN answers = {}
                       called == IF answers_empty THEN {} ELSE {"summary"}
                       fell == IF ~answers_empty /\ response = GenerationError
                               THEN {"summary"} ELSE {}
                   IN  /\ final_summary' = generate_summary_node(answers_empty, response, detail)
                       /\ conversation_stage' = "concluding"
                       /\ messages' = Append(msgs, Message("assistant", ConclusionMessage))
                       /\ last_call' = Call(op, gens \cup called, failed \cup fell)
                       /\ all_failed' = (all_failed /\ gens \cup called = failed \cup fell)
           ELSE /\ messages' =
                      IF route = "ask_next_question"
                      THEN Append(msgs, Message("assistant", technical_questions[index + 1]))
                      ELSE msgs
                /\ last_call' = Call(op, gens, failed)
                /\ all_failed' = (all_failed /\ gens = failed)
                /\ UNCHANGED <<conversation_stage, final_summary>>

\* analyze_answer_node on one answer, then the conditional edge.
GraphAnswer ==
    /\ impl = "graph"
    /\ conversation_stage = "in_tech_questions"
    /\ \E user_input \in UserInputs :
        LET msgs == Append(messages, Message("user", user_input))
            current_question == technical_questions[tech_question_index + 1]
        IN  IF is_awaiting_follow_up_answer
            THEN IF current_question \in DOMAIN technical_answers
                 THEN GraphContinue(
                          [technical_answers EXCEPT
                              ![current_question].answer = @ \o GraphFollowUpSeparator \o user_input],
                          FALSE, Increment(tech_question_index), msgs,
                          "answer_follow_up", {}, {}, None)
                 ELSE \* current_answers[current_question] raises KeyError
                      /\ stuck_answers < MaxStuckAnswers
                      /\ stuck_answers' = stuck_answers + 1
                      /\ messages' = msgs
                      /\ raised' = "KeyError"
                      /\ last_call' = Call("answer_follow_up", {}, {})
                      /\ history' = Record("follow_up", None, TRUE)
                      /\ UNCHANGED <<technical_answers, tech_question_index,
                                     is_awaiting_follow_up_answer, conversation_stage,
                                     final_summary, all_failed>>
            ELSE \E analysis \in AnalysisResponses \cup {AnalysisFailure} :
                    LET sentiment == analysis_sentiment(analysis)
                        follow_up == analysis_follow_up(analysis)
                        answers == Put(technical_answers, current_question,
                                       [answer |-> user_input, sentiment |-> sentiment])
                        failed == IF analysis.raises THEN {"analyzer"} ELSE {}
                    IN  IF Truthy(follow_up)
                        THEN GraphContinue(answers, TRUE, tech_question_index,
                                           Append(msgs, Message("assistant", follow_up)),
                                           "answer_main", {"analyzer"}, failed, follow_up)
                        ELSE GraphContinue(answers, FALSE, Increment(tech_question_index), msgs,
                                           "answer_main", {"analyzer"}, failed, follow_up)
    /\ UNCHANGED <<impl, technical_questions, summaries>>
    /\ UNCHANGED aside

\* analyze_answer_node tests neither the stage nor the cursor: a caller that
\* invokes it once more on a concluded session, with the key of any question of
\* the session, has the answer handled like any other.
GraphLateAnswer ==
    /\ impl = "graph"
    /\ conversation_stage = "concluding"
    /\ tech_question_index < Len(technical_questions) + MaxLateAnswers
    /\ \E user_input \in UserInputs, i \in 1..Len(technical_questions) :
        LET msgs == Append(messages, Message("user", user_input))
            current_question == technical_questions[i]
        IN  IF is_awaiting_follow_up_answer
            THEN IF current_question \in DOMAIN technical_answers
                 THEN GraphContinue(
                          [technical_answers EXCEPT
                              ![current_question].answer = @ \o GraphFollowUpSeparator \o user_input],
                          FALSE, Increment(tech_question_index), msgs,
                          "answer_follow_up", {}, {}, None)
                 ELSE /\ stuck_answers < MaxStuckAnswers
                      /\ stuck_answers' = stuck_answers + 1
                      /\ messages' = msgs
                      /\ raised' = "KeyError"
                      /\ last_call' = Call("answer_follow_up", {}, {})
                      /\ history' = Record("follow_up", None, TRUE)
                      /\ UNCHANGED <<technical_answers, tech_question_index,
                                     is_awaiting_follow_up_answer, conversation_stage,
                                     final_summary, all_failed>>
            ELSE \E analysis \in AnalysisResponses \cup {AnalysisFailure} :
                    LET sentiment == analysis_sentiment(analysis)
                        follow_up == analysis_follow_up(analysis)
                        answers == Put(technical_answers, current_question,
                                       [answer |-> user_input, sentiment |-> sentiment])
                        failed == IF analysis.raises THEN {"analyzer"} ELSE {}
                    IN  IF Truthy(follow_up)
                        THEN GraphContinue(answers, TRUE, tech_question_index,
                                           Append(msgs, Message("assistant", follow_up)),
                                           "answer_main", {"analyzer"}, failed, follow_up)
                        ELSE GraphContinue(answers, FALSE, Increment(tech_question_index), msgs,
                                           "answer_main", {"analyzer"}, failed, follow_up)
    /\ UNCHANGED <<impl, technical_questions, summaries>>
    /\ UNCHANGED aside

\* interview_app as create_graph compiles it, invoked to start the interview:
\* the entry point generate_questions_node is followed, on the edge
\* generate_questions -> analyze_answer, by analyze_answer_node on the state the
\* caller passed, and then by the conditional edge.  The caller's state holds
\* "user_input" and "current_question_key" (written before any question
\* exists) or analyze_answer_node raises KeyError on reading them.
WiredKeys == {"", FallbackQuestion1}

GraphInvoke ==
    /\ impl = "graph"
    /\ conversation_stage = "generating_tech_questions"
    /\ \E response \in QuestionResponses \cup {GenerationError}, has_input \in BOOLEAN :
        LET questions == generate_questions_node(response)
            q_failed == IF response = GenerationError THEN {"questions"} ELSE {}
        IN  IF ~has_input
            THEN /\ raised' = "KeyError"
                 /\ last_call' = Call("start", {"questions"}, q_failed)
                 /\ all_failed' = (all_failed /\ response = GenerationError)
                 /\ UNCHANGED <<technical_questions, technical_answers, tech_question_index,
                                is_awaiting_follow_up_answer, messages, final_summary,
                                conversation_stage, history>>
            ELSE \E user_input \in UserInputs, current_question \in WiredKeys,
                    analysis \in AnalysisResponses \cup {AnalysisFailure},
                    summary \in SummaryResponses \cup {GenerationError},
                    detail \in ErrorDetails :
                    LET sentiment == analysis_sentiment(analysis)
                        follow_up == analysis_follow_up(analysis)
                        awaiting == Truthy(follow_up)
                        index == IF awaiting THEN tech_question_index
                                 ELSE Increment(tech_question_index)
                        a_failed == IF analysis.raises THEN {"analyzer"} ELSE {}
                        concludes == ~awaiting /\ index >= Len(questions)
                        s_failed == IF concludes /\ summary = GenerationError
                                    THEN {"summary"} ELSE {}
                        gens == {"questions", "analyzer"} \cup
                                (IF concludes THEN {"summary"} ELSE {})
                        failed == q_failed \cup a_failed \cup s_failed
                    IN  /\ technical_questions' = questions
                        /\ technical_answers' =
                              Put(technical_answers, current_question,
                                  [answer |-> user_input, sentiment |-> sentiment])
                        /\ is_awaiting_follow_up_answer' = awaiting
                        /\ tech_question_index' = index
                        /\ messages' =
                              (IF awaiting
                               THEN Append(messages, Message("assistant", follow_up))
                               ELSE messages)
                              \o <<Message("assistant", IntroMessage),
                                   Message("assistant", questions[1])>>
                              \o (IF concludes
                                  THEN <<Message("assistant", ConclusionMessage)>>
                                  ELSE <<>>)
                        /\ final_summary' =
                              IF concludes
                              THEN generate_summary_node(FALSE, summary, detail)
                              ELSE final_summary
                        /\ conversation_stage' =
                              IF concludes THEN "concluding" ELSE "in_tech_questions"
                        /\ history' = Record("main", follow_up, FALSE)
                        /\ raised' = NoError
                        /\ last_call' = Call("start", gens, failed)
                        /\ all_failed' = (all_failed /\ gens = failed)
    /\ UNCHANGED <<impl, summaries, stuck_answers>>
    /\ UNCHANGED aside
(* ------------------------------- Spec --------------------------------- *)

EasierQuestion == ScreenerEasierQuestion \/ GraphEasierQuestion
Answer == ScreenerAnswer \/ GraphAnswer
GenerateQuestions == ScreenerGenerateQuestions \/ GraphGenerateQuestions

Next ==
    \/ SubmitDetails
    \/ ScreenerGenerateQuestions
    \/ ScreenerEasierQuestion
    \/ ScreenerAnswer
    \/ ScreenerRenderConcluding
    \/ GraphGenerateQuestions
    \/ GraphEasierQuestion
    \/ GraphAnswer

Spec == Init /\ [][Next]_vars

\* The candidate keeps acting: each script run that is due happens, and the
\* candidate keeps submitting answers while the chat input is shown.
FairSpec ==
    /\ Spec
    /\ WF_vars(SubmitDetails)
    /\ WF_vars(GenerateQuestions)
    /\ WF_vars(Answer)
    /\ WF_vars(ScreenerRenderConcluding)

\* The graph's nodes under a caller that does not stop at the conclusion.
LateNext ==
    \/ Next
    \/ GraphLateAnswer

LateSpec == Init /\ [][LateNext]_vars

\* The graph started through interview_app instead of through its nodes.
WiredNext ==
    \/ Next
    \/ GraphInvoke

WiredSpec == Init /\ [][WiredNext]_vars

(* ---------------------- the question synthesizer ---------------------- *)

\* Question generation on a reply of a given shape.
ScreenerSynthesize ==
    /\ \E p \in Probes : ScreenerStart(ResponseOf(p)) /\ probe' = p
    /\ UNCHANGED <<store, writers, resume, recruiter>>

GraphSynthesize ==
    /\ \E p \in Probes : GraphStart(ResponseOf(p)) /\ probe' = p
    /\ UNCHANGED <<store, writers, resume, recruiter>>

SynthesizerNext ==
    \/ SubmitDetails
    \/ ScreenerSynthesize
    \/ GraphSynthesize

SynthesizerSpec == Init /\ [][SynthesizerNext]_vars

(* ------------------- question generation on a resume ----------------- *)

\* The form has been submitted: the stage is "generating_tech_questions", with
\* any outcome of the upload, any tech stack and any outcome of each lookup.
ResumeInit ==
    /\ impl \in {"screener", "graph"}
    /\ conversation_stage = "generating_tech_questions"
    /\ technical_questions = <<>>
    /\ technical_answers = EmptyDict
    /\ tech_question_index = 0
    /\ is_awaiting_follow_up_answer = FALSE
    /\ messages = <<>>
    /\ final_summary = None
    /\ summaries = <<>>
    /\ raised = NoError
    /\ last_call = Call("submit_details", {}, {})
    /\ all_failed = TRUE
    /\ stuck_answers = 0
    /\ history = [calls |-> 0, follow_ups |-> 0,
                  last |-> Advance("none", None, FALSE),
                  done |-> Advance("none", None, FALSE)]
    /\ probe = NoProbe
    /\ store = EmptyDict
    /\ writers = [s \in Sessions |-> Idle]
    /\ resume \in ResumeInputs
    /\ recruiter = NoRecruiter

\* generate_questions with the session's retriever: the context is collected,
\* the prompt chosen, and the generation call made.
ScreenerGenerateOnResume ==
    /\ \E response \in QuestionResponses \cup {GenerationError} : ScreenerStart(response)
    /\ LET retriever == resume_retriever(resume.upload)
           context == get_resume_context(resume.tech_stack, retriever, resume.lookups)
       IN  resume' = [resume EXCEPT !.ran = TRUE, !.context = context,
                                    !.prompt = generate_questions_prompt(retriever, context)]
    /\ UNCHANGED <<probe, store, writers, recruiter>>

\* generate_questions_node with the state's retriever.
GraphGenerateOnResume ==
    /\ \E response \in QuestionResponses \cup {GenerationError} : GraphStart(response)
    /\ LET retriever == resume_retriever(resume.upload)
           context == get_resume_context(resume.tech_stack, retriever, resume.lookups)
       IN  resume' = [resume EXCEPT !.ran = TRUE, !.context = context,
                                    !.prompt = generate_questions_node_prompt(retriever, context)]
    /\ UNCHANGED <<probe, store, writers, recruiter>>

ResumeNext ==
    \/ ScreenerGenerateOnResume
    \/ GraphGenerateOnResume

ResumeSpec == ResumeInit /\ [][ResumeNext]_vars

(* ------------------------ concurrent conclusions ---------------------- *)

\* Two sessions of the screener, of different candidates, have concluded and
\* are about to save their summaries.
StoreInit ==
    /\ impl = "screener"
    /\ conversation_stage = "concluding"
    /\ technical_questions = <<>>
    /\ technical_answers = EmptyDict
    /\ tech_question_index = 0
    /\ is_awaiting_follow_up_answer = FALSE
    /\ messages = <<>>
    /\ final_summary = None
    /\ summaries = <<>>
    /\ raised = NoError
    /\ last_call = Call("init", {}, {})
    /\ all_failed = TRUE
    /\ stuck_answers = 0
    /\ history = [calls |-> 0, follow_ups |-> 0,
                  last |-> Advance("none", None, FALSE),
                  done |-> Advance("none", None, FALSE)]
    /\ probe = NoProbe
    /\ store = EmptyDict
    /\ writers \in [Sessions -> {[pc |-> "concluded", full_name |-> c.full_name,
                                   email |-> c.email, second |-> 0] : c \in Candidates}]
    /\ \A s, t \in Sessions : s # t => writers[s] # writers[t]
    /\ resume = NoResume
    /\ recruiter = NoRecruiter

session_vars == <<impl, conversation_stage, technical_questions, technical_answers,
                  tech_question_index, is_awaiting_follow_up_answer, messages,
                  final_summary, summaries, raised, last_call, all_failed,
                  stuck_answers, history, probe, resume, recruiter>>

\* save_and_download_summary, the file name: the clock is read.
NameFile(s) ==
    /\ writers[s].pc = "concluded"
    /\ \E second \in 1..MaxSeconds :
          writers' = [writers EXCEPT ![s].pc = "named", ![s].second = second]
    /\ UNCHANGED <<store, session_vars>>

\* open(file_path, 'w') creates the file or truncates it.
OpenFile(s) ==
    /\ writers[s].pc = "named"
    /\ store' = Put(store, file_name(writers[s].second, writers[s].full_name), "")
    /\ writers' = [writers EXCEPT ![s].pc = "opened"]
    /\ UNCHANGED session_vars

\* f.write(json_string) and the close of the file: the text lands at offset 0.
WriteFile(s) ==
    /\ writers[s].pc = "opened"
    /\ LET path == file_name(writers[s].second, writers[s].full_name)
       IN  store' = [store EXCEPT ![path] = Overwrite(@, json_string(writers[s]))]
    /\ writers' = [writers EXCEPT ![s].pc = "done"]
    /\ UNCHANGED session_vars

StoreNext ==
    \/ \E s \in Sessions : NameFile(s)
    \/ \E s \in Sessions : OpenFile(s)
    \/ \E s \in Sessions : WriteFile(s)

StoreSpec == StoreInit /\ [][StoreNext]_vars

(* ----------------------- the summary synthesizer ---------------------- *)

\* The answers the summary synthesizer may be given: any dict, the empty one
\* included, from question texts to recorded answers.
SummaryInputs(i) ==
    LET texts == {QuestionText(k) : k \in 1..MaxQuestions}
        values == IF i = "graph"
                  THEN [answer : UserInputs, sentiment : {"Confident", "N/A"}]
                  ELSE UserInputs
    IN  UNION {[keys -> values] : keys \in SUBSET texts}

\* A session at its conclusion, with any answers.
SummaryInit ==
    /\ impl \in {"screener", "graph"}
    /\ conversation_stage = "concluding"
    /\ technical_questions = <<>>
    /\ technical_answers \in SummaryInputs(impl)
    /\ tech_question_index = 0
    /\ is_awaiting_follow_up_answer = FALSE
    /\ messages = <<>>
    /\ final_summary = None
    /\ summaries = <<>>
    /\ raised = NoError
    /\ last_call = Call("init", {}, {})
    /\ all_failed = TRUE
    /\ stuck_answers = 0
    /\ history = [calls |-> 0, follow_ups |-> 0,
                  last |-> Advance("none", None, FALSE),
                  done |-> Advance("none", None, FALSE)]
    /\ probe = NoProbe
    /\ store = EmptyDict
    /\ writers = [s \in Sessions |-> Idle]
    /\ resume = NoResume
    /\ recruiter = NoRecruiter

\* generate_summary_node on the state.
GraphGenerateSummary ==
    /\ impl = "graph"
    /\ conversation_stage = "concluding"
    /\ final_summary = None
    /\ \E response \in SummaryResponses \cup {GenerationError}, detail \in ErrorDetails :
          LET answers_empty == DOMAIN technical_answers = {}
              called == IF answers_empty THEN {} ELSE {"summary"}
              fell == IF ~answers_empty /\ response = GenerationError
                      THEN {"summary"} ELSE {}
          IN  /\ final_summary' = generate_summary_node(answers_empty, response, detail)
              /\ last_call' = Call("summary", called, fell)
              /\ all_failed' = (all_failed /\ called = fell)
    /\ raised' = NoError
    /\ UNCHANGED <<stuck_answers, history, impl, conversation_stage, technical_questions,
                   technical_answers, tech_question_index, is_awaiting_follow_up_answer,
                   messages, summaries>>
    /\ UNCHANGED aside

SummaryNext ==
    \/ ScreenerRenderConcluding
    \/ GraphGenerateSummary

SummarySpec == SummaryInit /\ [][SummaryNext]_vars

(* ------------------------ the recruiter dashboard --------------------- *)

\* A deployment with no password file yet, and its bcrypt library.
DashboardInit ==
    /\ impl = "screener"
    /\ conversation_stage = "gathering_info"
    /\ technical_questions = <<>>
    /\ technical_answers = EmptyDict
    /\ tech_question_index = 0
    /\ is_awaiting_follow_up_answer = FALSE
    /\ messages = <<>>
    /\ final_summary = None
    /\ summaries = <<>>
    /\ raised = NoError
    /\ last_call = Call("init", {}, {})
    /\ all_failed = TRUE
    /\ stuck_answers = 0
    /\ history = [calls |-> 0, follow_ups |-> 0,
                  last |-> Advance("none", None, FALSE),
                  done |-> Advance("none", None, FALSE)]
    /\ probe = NoProbe
    /\ store = EmptyDict
    /\ writers = [s \in Sessions |-> Idle]
    /\ resume = NoResume
    /\ recruiter \in {[NoRecruiter EXCEPT !.build = build] : build \in BcryptBuilds}

candidate_vars == <<impl, conversation_stage, technical_questions, technical_answers,
                    tech_question_index, is_awaiting_follow_up_answer, messages,
                    final_summary, summaries, raised, last_call, all_failed,
                    stuck_answers, history, probe, store, writers, resume>>

\* main of the dashboard, not logged in: login_screen with the password entered.
DashboardLogin ==
    /\ ~recruiter.logged_in
    /\ \E password \in Passwords, salt \in Salts :
          IF password = ""
          THEN recruiter' = [recruiter EXCEPT
                                !.loaded = FALSE,
                                !.last = Run("login", password, "", "",
                                             login_screen(password, "none").outcome)]
          ELSE LET stored == StoredAfterCheck(recruiter.hash, salt)
                   result == check_password(recruiter.build, stored, password)
                   screen == login_screen(password, result)
               IN  recruiter' = [recruiter EXCEPT
                                    !.hash = stored,
                                    !.logged_in = screen.logged_in,
                                    !.loaded = (screen.outcome = "rendered"),
                                    !.last = Run("login", password, "", "", screen.outcome)]
    /\ UNCHANGED candidate_vars

\* main of the dashboard, logged in, no form submitted: the summaries are
\* loaded and shown.
DashboardView ==
    /\ recruiter.logged_in
    /\ recruiter' = [recruiter EXCEPT !.loaded = TRUE,
                                      !.last = Run("view", "", "", "", "rendered")]
    /\ UNCHANGED candidate_vars

\* main of the dashboard, logged in, the change-password form submitted: the
\* summaries are loaded and shown, then change_password_screen handles the form.
DashboardChangePassword ==
    /\ recruiter.logged_in
    /\ \E current_password \in Passwords, new_password \in Passwords,
          confirm_password \in Passwords, salt \in Salts,
          default_salt \in (IF recruiter.hash = NoHash THEN Salts ELSE {1}) :
          LET stored == StoredAfterCheck(recruiter.hash, default_salt)
              result == check_password(recruiter.build, stored, current_password)
              outcome ==
                  IF result = "ValueError" THEN "raised"
                  ELSE IF result = "rejected" THEN "current_incorrect"
                  ELSE IF new_password # confirm_password THEN "no_match"
                  ELSE IF Len(new_password) < MinPasswordLength THEN "too_short"
                  ELSE IF TooLong(recruiter.build, new_password) THEN "raised"
                  ELSE "changed"
          IN  recruiter' = [recruiter EXCEPT
                               !.hash = IF outcome = "changed"
                                        THEN hashpw(new_password, salt) ELSE stored,
                               !.loaded = TRUE,
                               !.last = Run("change", current_password, new_password,
                                            confirm_password, outcome)]
    /\ UNCHANGED candidate_vars

\* A new browser session: main sets logged_in to False.
DashboardNewSession ==
    /\ recruiter.logged_in
    /\ recruiter' = [recruiter EXCEPT !.logged_in = FALSE, !.loaded = FALSE,
                                      !.last = Run("new_session", "", "", "", "none")]
    /\ UNCHANGED candidate_vars

DashboardNext ==
    \/ DashboardLogin
    \/ DashboardView
    \/ DashboardChangePassword
    \/ DashboardNewSession

DashboardSpec == DashboardInit /\ [][DashboardNext]_vars

(* ------------------------------ states -------------------------------- *)

Started == conversation_stage \in {"in_tech_questions", "concluding"}
MainQuestionPending ==
    conversation_stage = "in_tech_questions" /\ ~is_awaiting_follow_up_answer
FollowUpPending ==
    conversation_stage = "in_tech_questions" /\ is_awaiting_follow_up_answer
Concluded == conversation_stage = "concluding"

LastMessage == messages[Len(messages)]

\* The text and the sentiment of a recorded answer: the graph records
\* {"answer", "sentiment"}, the screener the answer text alone.
AnswerText(a) == IF impl = "graph" THEN a.answer ELSE a
AnswerSentiment(a) == IF impl = "graph" THEN a.sentiment ELSE None

IsPrefix(s, t) == Len(s) <= Len(t) /\ SubSeq(t, 1, Len(s)) = s
IsSuffix(s, t) == Len(s) <= Len(t) /\ SubSeq(t, Len(t) - Len(s) + 1, Len(t)) = s

SummaryFailureLiterals ==
    IF impl = "screener" THEN {ScreenerSummaryError}
    ELSE {GraphSummaryErrorPrefix \o detail : detail \in ErrorDetails}

(* ------------------------------ claims -------------------------------- *)

C2_EventuallyConcluded ==
    (conversation_stage = "in_tech_questions") ~> (conversation_stage = "concluding")

\* C3: a generation call that fails in any of the four generators raises
\* nothing in the run that made it: the generator's fallback value is in place
\* and the run has completed.
C3_FailureFallsBack ==
    last_call.failed # {} =>
        /\ raised = NoError
        /\ "questions" \in last_call.failed =>
              /\ technical_questions = <<FallbackQuestion1, FallbackQuestion2>>
              /\ conversation_stage = "in_tech_questions"
              /\ LastMessage = Message("assistant", FallbackQuestion1)
        /\ "easier" \in last_call.failed =>
              /\ technical_questions[tech_question_index + 1] = EasierFallback
              /\ LastMessage = Message("assistant", EasierFallback)
        /\ "analyzer" \in last_call.failed =>
              /\ ~is_awaiting_follow_up_answer
              /\ history.last = Advance("main", None, FALSE)
              /\ tech_question_index >= 1
              /\ technical_questions[tech_question_index] \in DOMAIN technical_answers
              /\ impl = "graph" =>
                    technical_answers[technical_questions[tech_question_index]].sentiment = "N/A"
        /\ "summary" \in last_call.failed =>
              /\ Concluded
              /\ final_summary \in SummaryFailureLiterals

\* The run that concluded a session in which question generation, the easier
\* question, the analyzer and the summary all failed.
C3_Witness ==
    /\ impl = "graph"
    /\ last_call.failed = {"analyzer", "summary"}
    /\ technical_questions = <<EasierFallback, FallbackQuestion2>>
    /\ raised = NoError

\* C4: while every generation call has failed, the questions generated are
\* exactly the two fallback questions, no run raises, no follow-up is pending,
\* a summary that exists is the failure literal, and the session goes on to the
\* concluded stage with that summary.
C4_AlwaysFailingService ==
    /\ [](all_failed =>
            /\ raised = NoError
            /\ Started =>
                  /\ Len(technical_questions) = 2
                  /\ last_call.op = "start" =>
                        technical_questions = <<FallbackQuestion1, FallbackQuestion2>>
                  /\ ~is_awaiting_follow_up_answer
                  /\ history.calls = tech_question_index
            /\ final_summary # None => final_summary \in SummaryFailureLiterals)
    /\ <>(~all_failed \/ (Concluded /\ final_summary \in SummaryFailureLiterals))

\* A concluded session in which every generation call failed.
C4_Witness ==
    /\ all_failed
    /\ Concluded
    /\ history.calls = 2
    /\ final_summary \in SummaryFailureLiterals

\* C5: a session with N questions and no follow-up is concluded after exactly
\* N answer submissions, with the cursor at N and N recorded answers for the
\* summary.
C5_RoundTrip ==
    (Started /\ history.follow_ups = 0) =>
        /\ Concluded <=> history.calls = Len(technical_questions)
        /\ Concluded =>
              /\ tech_question_index = Len(technical_questions)
              /\ Cardinality(DOMAIN technical_answers) = Len(technical_questions)
              /\ impl = "graph" => final_summary \notin {None, NoAnswersSummary}

C7_OneFollowUpPerSlot ==
    [][(Answer /\ is_awaiting_follow_up_answer) =>
          /\ "analyzer" \notin last_call'.gens
          /\ history'.follow_ups = history.follow_ups
          /\ ~is_awaiting_follow_up_answer'
          /\ tech_question_index' = tech_question_index + 1]_vars

C9_ConcludedTerminal ==
    [][Concluded =>
          /\ Concluded'
          /\ UNCHANGED <<tech_question_index, is_awaiting_follow_up_answer,
                         technical_questions, technical_answers>>
          /\ final_summary # None => final_summary' = final_summary]_vars

\* C10: an easier-question request made while a follow-up is pending is
\* rejected: no field of the session changes.
C10_EasierRejectedInFollowUp ==
    [][(EasierQuestion /\ FollowUpPending) =>
          UNCHANGED <<technical_questions, messages, technical_answers,
                      tech_question_index, is_awaiting_follow_up_answer,
                      conversation_stage, final_summary>>]_vars

\* C11: an answer submission made on a concluded session is rejected: the run
\* signals an error and no field of the session changes.
C11_LateAnswerRejected ==
    [][(Concluded /\ history'.calls # history.calls) =>
          /\ raised' # NoError
          /\ UNCHANGED <<technical_answers, tech_question_index,
                         is_awaiting_follow_up_answer, technical_questions,
                         conversation_stage, final_summary>>]_vars

\* C12: a recorded answer is never removed, and its text and sentiment never
\* change, but for the follow-up answer being concatenated onto the text of
\* the question that is in follow-up.
C12_AnswersAppendOnly ==
    [][\A q \in DOMAIN technical_answers :
          /\ q \in DOMAIN technical_answers'
          /\ \/ technical_answers'[q] = technical_answers[q]
             \/ /\ FollowUpPending
                /\ q = technical_questions[tech_question_index + 1]
                /\ AnswerSentiment(technical_answers'[q]) = AnswerSentiment(technical_answers[q])
                /\ Len(AnswerText(technical_answers'[q])) > Len(AnswerText(technical_answers[q]))
                /\ IsPrefix(AnswerText(technical_answers[q]), AnswerText(technical_answers'[q]))
                /\ \E prompt \in UserInputs :
                      IsSuffix(prompt, AnswerText(technical_answers'[q]))]_vars

\* The scenario of C13: one question, answered with "I used profiling.", for
\* which the analyzer returned a follow-up; the run that handled the answer has
\* just completed.
C13_AfterFirstAdvance ==
    /\ Len(technical_questions) = 1
    /\ history.calls = 1
    /\ last_call.op = "answer_main"
    /\ Truthy(history.last.follow_up)
    /\ technical_questions[1] \in DOMAIN technical_answers
    /\ AnswerText(technical_answers[technical_questions[1]]) = "I used profiling."

\* The next answer submission of the scenario, with the input "cProfile.".
C13_SecondAdvance ==
    /\ C13_AfterFirstAdvance
    /\ history'.calls = 2
    /\ messages'[Len(messages) + 1] = Message("user", "cProfile.")

C14_EmptyAnswersSummary ==
    (final_summary # None /\ DOMAIN technical_answers = {}) =>
        /\ final_summary = "No technical answers were provided."
        /\ last_call.gens = {}
        /\ raised = NoError

\* The graph's summary node has run on a session without answers.
C14_Witness ==
    /\ impl = "graph"
    /\ last_call.op = "summary"
    /\ DOMAIN technical_answers = {}
    /\ final_summary = "No technical answers were provided."

\* C15: a concluded session writes one summary record, once: no second record
\* is ever written, and once the record is written neither a further record is
\* written nor the summary generated again.
C15_OneSummaryRecord ==
    /\ [](Len(summaries) <= 1)
    /\ [][(Concluded /\ Len(summaries) = 1) =>
            /\ summaries' = summaries
            /\ final_summary' = final_summary
            /\ "summary" \notin last_call'.gens]_vars

\* The last run handled an answer submission.
AdvanceRan == last_call.op \in {"answer_main", "answer_follow_up"}

ProbeQuestions ==
    IF probe.failed \/ probe.mark = ") " THEN <<>>
    ELSE [i \in 1..probe.k |-> QuestionText(i)]

\* C17: the question synthesizer returns at least one question and raises
\* nothing: the items of the numbered list, trimmed and in their order, when
\* the reply holds at least one, and the two fallback questions when it holds
\* none or the call failed.
C17_SynthesizerResult ==
    probe.ran =>
        /\ raised = NoError
        /\ Len(technical_questions) >= 1
        /\ technical_questions =
              IF ProbeQuestions = <<>>
              THEN << "Could you describe a challenging project you've worked on with your listed technologies?",
                      "How do you stay updated with the latest trends in your tech stack?" >>
              ELSE ProbeQuestions
        /\ LastMessage = Message("assistant", technical_questions[1])

\* The screener parsed two items that follow a preamble and end in a space.
C17_Witness ==
    /\ impl = "screener"
    /\ probe.ran
    /\ probe.preamble = "Sure!\n\n"
    /\ probe.tail = " \n"
    /\ technical_questions = <<"Q1?", "Q2?">>

\* C19: when concurrent sessions save their summaries, the file a session has
\* written holds that session's record, whatever the candidates' names and the
\* seconds at which the files are named.
C19_OwnRecordKept ==
    \A s \in Sessions :
        writers[s].pc = "done" =>
            LET path == file_name(writers[s].second, writers[s].full_name)
            IN  /\ path \in DOMAIN store
                /\ store[path] = json_string(writers[s])

\* C18: wherever a sentiment is stored with a recorded answer, it is one of
\* "Confident", "Neutral", "Hesitant" and "N/A", whatever the service replied.
C18_SentimentValues ==
    impl = "graph" =>
        \A q \in DOMAIN technical_answers :
            AnswerSentiment(technical_answers[q]) \in {"Confident", "Neutral", "Hesitant", "N/A"}

\* C20: the session has a summary exactly in the concluded stage: none while
\* the details are gathered, a main question is pending or a follow-up is
\* pending, and one in every concluded state.
C20_SummaryIffConcluded ==
    (final_summary # None) <=> Concluded

\* C21: right after the start the cursor is 0, the follow-up flag is down, no
\* answer is recorded, the last turn of the transcript is the assistant's turn
\* with the first question, the session waits for a main answer, and the
\* analyzer has not been called: nothing is analyzed or recorded before the
\* first user input.
C21_StartState ==
    (last_call.op = "start" /\ raised = NoError) =>
        /\ tech_question_index = 0
        /\ ~is_awaiting_follow_up_answer
        /\ technical_answers = EmptyDict
        /\ LastMessage = Message("assistant", technical_questions[1])
        /\ MainQuestionPending
        /\ "analyzer" \notin last_call.gens
        /\ history.calls = 0

\* C22: an answer submitted while a follow-up is pending appends
\* "\nFollow-up Answer: " and the input to the answer text recorded under the
\* question at the cursor, keeping the main answer as a prefix, lowers the
\* follow-up flag and moves the cursor on by exactly one.  Stated of the
\* screener, whose separator is the one the claim names.
C22_FollowUpAdvance ==
    [][(impl = "screener" /\ FollowUpPending /\ history'.calls = history.calls + 1) =>
          LET question == technical_questions[tech_question_index + 1]
              user_input == messages'[Len(messages) + 1].content
          IN  /\ question \in DOMAIN technical_answers
              /\ technical_answers'[question] =
                    technical_answers[question] \o "\nFollow-up Answer: " \o user_input
              /\ IsPrefix(technical_answers[question], technical_answers'[question])
              /\ ~is_awaiting_follow_up_answer'
              /\ tech_question_index' = tech_question_index + 1]_vars

\* C23: the answer to a main question for which the analyzer returns a
\* follow-up (a text, neither null nor empty) is recorded under the question at
\* the cursor, the follow-up is appended as an assistant turn right after the
\* user's turn and nothing after it, the follow-up flag goes up and the cursor
\* stays; no summary is generated and the stage does not change in that step.
C23_FollowUpAsked ==
    [][(MainQuestionPending /\ history'.calls = history.calls + 1
            /\ Truthy(history'.last.follow_up)) =>
          LET question == technical_questions[tech_question_index + 1]
              user_input == messages'[Len(messages) + 1].content
          IN  /\ question \in DOMAIN technical_answers'
              /\ AnswerText(technical_answers'[question]) = user_input
              /\ messages' = messages \o <<Message("user", user_input),
                                           Message("assistant", history'.last.follow_up)>>
              /\ is_awaiting_follow_up_answer'
              /\ tech_question_index' = tech_question_index
              /\ UNCHANGED <<final_summary, summaries, conversation_stage>>
              /\ "summary" \notin last_call'.gens]_vars

\* The screener has asked a follow-up on the second question: the follow-up is
\* the last turn and the answer is recorded under that question.
C23_Witness ==
    /\ impl = "screener"
    /\ FollowUpPending
    /\ tech_question_index = 1
    /\ history.last.kind = "main"
    /\ LastMessage = Message("assistant", history.last.follow_up)
    /\ technical_questions[2] \in DOMAIN technical_answers
    /\ final_summary = None

\* C24: the answer to a main question for which the analyzer returns no
\* follow-up is recorded under the question at the cursor, the follow-up flag
\* stays down and the cursor moves on by exactly one; a failed analyzer call is
\* such a case: it gives no follow-up, in the graph the sentiment "N/A", and
\* the submission does not raise.
C24_NoFollowUp ==
    [][(MainQuestionPending /\ history'.calls = history.calls + 1) =>
          LET question == technical_questions[tech_question_index + 1]
              user_input == messages'[Len(messages) + 1].content
          IN  /\ "analyzer" \in last_call'.failed =>
                    /\ history'.last.follow_up = None
                    /\ raised' = NoError
                    /\ impl = "graph" => technical_answers'[question].sentiment = "N/A"
              /\ ~Truthy(history'.last.follow_up) =>
                    /\ question \in DOMAIN technical_answers'
                    /\ AnswerText(technical_answers'[question]) = user_input
                    /\ ~is_awaiting_follow_up_answer'
                    /\ tech_question_index' = tech_question_index + 1]_vars

\* The analyzer call failed on the answer to the second question: the answer is
\* recorded and the session has moved past the question.
C24_Witness ==
    /\ last_call.op = "answer_main"
    /\ "analyzer" \in last_call.failed
    /\ tech_question_index = 2
    /\ ~is_awaiting_follow_up_answer
    /\ history.last.follow_up = None
    /\ Cardinality(DOMAIN technical_answers) = 2

\* C25: an answer submission that ends with the follow-up flag down either
\* leaves the cursor on a question, and then that question is appended as an
\* assistant turn and the session waits for its answer, or has used up the
\* questions, and then the summary synthesizer is called in that step, its
\* result is the session's summary, and the session is concluded.
C25_NextQuestionOrSummary ==
    [][(history'.calls = history.calls + 1 /\ ~history'.last.raised
            /\ ~is_awaiting_follow_up_answer') =>
          IF tech_question_index' < Len(technical_questions)
          THEN /\ messages'[Len(messages')] =
                     Message("assistant", technical_questions[tech_question_index' + 1])
               /\ Len(messages') > Len(messages) + 1
               /\ MainQuestionPending'
          ELSE /\ "summary" \in last_call'.gens
               /\ final_summary' # None
               /\ Concluded']_vars

C27_TranscriptAppendOnly ==
    [][/\ Len(messages') >= Len(messages)
       /\ \A i \in 1..(Len(messages) - 1) : messages'[i] = messages[i]
       /\ (Len(messages) > 0 /\ messages'[Len(messages)] # messages[Len(messages)]) =>
             last_call'.op = "easier"
       /\ last_call'.op = "easier" => Len(messages') = Len(messages)]_vars

\* An easier-question request has overwritten the last of four turns, the
\* second question, and the three turns before it are as they were.
C27_Witness ==
    /\ last_call.op = "easier"
    /\ raised = NoError
    /\ Len(messages) = 4
    /\ Len(technical_questions) = 2
    /\ LastMessage = Message("assistant", technical_questions[2])
    /\ messages[1] = Message("assistant", IntroMessage)
    /\ messages[2] = Message("assistant", technical_questions[1])
    /\ messages[3].role = "user"
    /\ tech_question_index = 1

\* t occurs in s.
Contains(s, t) == \E i \in 1..(Len(s) - Len(t) + 1) : SubSeq(s, i, i + Len(t) - 1) = t

\* C28: question generation uses the resume prompt exactly when the context
\* collected from the resume is not empty.  Without a retriever (no upload, or
\* a resume that could not be processed) the context is empty; a lookup that
\* raises or returns no document adds nothing for its technology; and in every
\* case the generation goes through: nothing is raised and the session starts
\* with at least one question.
C28_PromptByContext ==
    resume.ran =>
        /\ resume.prompt \in {"resume", "generic"}
        /\ resume.prompt = "resume" <=> resume.context # ""
        /\ resume.upload # "processed" => resume.context = ""
        /\ \A i \in DOMAIN resume.lookups :
              resume.lookups[i] # "docs" =>
                  ~Contains(resume.context, ContextHeader(resume.tech_stack[i]))
        /\ (\A i \in DOMAIN resume.lookups : resume.lookups[i] # "docs") =>
              resume.context = ""
        /\ raised = NoError
        /\ conversation_stage = "in_tech_questions"
        /\ Len(technical_questions) >= 1

\* With a retriever, the lookup of the first technology raised and the second
\* returned a document: the questions were generated with the resume prompt.
C28_Witness ==
    /\ resume.ran
    /\ resume.upload = "processed"
    /\ resume.lookups = <<"raises", "docs">>
    /\ resume.prompt = "resume"
    /\ Contains(resume.context, ContextHeader(resume.tech_stack[2]))
    /\ Len(technical_questions) >= 1

\* C29: whenever the screener waits for the answer to a main question, the
\* last turn of the transcript is the assistant's turn that shows the question
\* at the cursor, so that is the turn an easier-question request overwrites.
C29_LastTurnIsCurrentQuestion ==
    (impl = "screener" /\ MainQuestionPending) =>
        /\ tech_question_index < Len(technical_questions)
        /\ LastMessage = Message("assistant", technical_questions[tech_question_index + 1])

\* The screener waits for the answer to the second question, which an
\* easier-question request has just replaced, after a follow-up on the first.
C29_Witness ==
    /\ impl = "screener"
    /\ MainQuestionPending
    /\ tech_question_index = 1
    /\ last_call.op = "easier"
    /\ history.follow_ups = 1
    /\ LastMessage.content = technical_questions[2]
    /\ technical_questions[2] # QuestionText(2)

\* C30: in every state in which the screener accepts an answer or an
\* easier-question request (stage "in_tech_questions") the cursor is at least
\* 0 and less than the number of questions, so technical_questions[cursor] is
\* in range; and once the interview has started the stage is "concluding"
\* exactly when the cursor equals the number of questions.
C30_CursorInRange ==
    impl = "screener" =>
        /\ conversation_stage = "in_tech_questions" =>
              /\ 0 <= tech_question_index
              /\ tech_question_index < Len(technical_questions)
              /\ raised # "IndexError"
        /\ Started =>
              (Concluded <=> tech_question_index = Len(technical_questions))

\* The screener has concluded a session of two questions with the cursor at 2.
C30_Witness ==
    /\ impl = "screener"
    /\ Concluded
    /\ tech_question_index = 2
    /\ Len(technical_questions) = 2
    /\ history.calls = 3
    /\ final_summary = None

\* C31: whenever the follow-up flag is up, an answer is already recorded under
\* the question text that stands at the cursor, so appending the follow-up
\* answer finds its key, whatever answer submissions and easier-question
\* requests came before.
C31_FollowUpKeyPresent ==
    is_awaiting_follow_up_answer =>
        /\ tech_question_index < Len(technical_questions)
        /\ technical_questions[tech_question_index + 1] \in DOMAIN technical_answers

\* C32: a concluded session of N questions has exactly N recorded answers, one
\* for each main question that was asked, also when two slots hold the same
\* question text.
C32_OneAnswerPerQuestion ==
    (Concluded /\ tech_question_index = Len(technical_questions)) =>
        Cardinality(DOMAIN technical_answers) = Len(technical_questions)

\* C33: when a session of N questions is concluded, the answer submissions made
\* since the start number at least N and at most 2N, whatever the analyzer
\* returned and however many easier-question requests were made in between.
C33_AdvanceCount ==
    Concluded =>
        /\ history.calls >= Len(technical_questions)
        /\ history.calls <= 2 * Len(technical_questions)

\* C34: in the screener every answer submission appends exactly two turns to
\* the transcript: the user's turn with the input, then one assistant turn,
\* which is the follow-up, the next main question or the conclusion message.
C34_TwoTurnsPerSubmission ==
    [][(impl = "screener" /\ history'.calls = history.calls + 1) =>
          /\ Len(messages') = Len(messages) + 2
          /\ SubSeq(messages', 1, Len(messages)) = messages
          /\ messages'[Len(messages) + 1].role = "user"
          /\ messages'[Len(messages) + 1].content \in UserInputs
          /\ messages'[Len(messages) + 2].role = "assistant"
          /\ messages'[Len(messages) + 2].content \in
                {history'.last.follow_up, ConclusionMessage}
                    \cup {technical_questions[i] : i \in 1..Len(technical_questions)}]_vars

\* C35: the dashboard loads and shows the summaries only in a run in which
\* logged_in is true; logged_in becomes true only in a login run in which
\* check_password accepted the password entered; and a login run with an empty
\* or a rejected password is stopped with no summary loaded.
C35_SummariesBehindLogin ==
    [][/\ recruiter'.loaded => recruiter'.logged_in
       /\ (~recruiter.logged_in /\ recruiter'.logged_in) =>
             /\ recruiter'.last.op = "login"
             /\ recruiter'.last.password # ""
             /\ check_password(recruiter.build, recruiter'.hash,
                               recruiter'.last.password) = "accepted"
       /\ (recruiter'.last.op = "login"
             /\ \/ recruiter'.last.password = ""
                \/ check_password(recruiter.build, recruiter'.hash,
                                  recruiter'.last.password) = "rejected") =>
             /\ recruiter'.last.outcome = "stopped"
             /\ ~recruiter'.loaded
             /\ ~recruiter'.logged_in]_vars

\* After a change of the password and a new session, a login with the new
\* password has loaded the summaries.
C35_Witness ==
    /\ recruiter.logged_in
    /\ recruiter.loaded
    /\ recruiter.last.op = "login"
    /\ recruiter.last.password = "correct horse"
    /\ recruiter.hash.key = "correct horse"

\* C36: a change-password submission replaces the stored hash only when the
\* current password is accepted, the new password equals its confirmation and
\* has at least 8 characters; any other submission leaves the stored hash as it
\* was; and after a submission that meets the three conditions check_password
\* accepts the new password and no other.
C36_PasswordReplaced ==
    [][(recruiter'.last.op = "change" /\ recruiter' # recruiter) =>
          LET run == recruiter'.last
              meets ==
                  /\ check_password(recruiter.build, recruiter.hash, run.password) = "accepted"
                  /\ run.new = run.confirm
                  /\ Len(run.new) >= MinPasswordLength
          IN  /\ recruiter'.hash # recruiter.hash => meets
              /\ ~meets => recruiter'.hash = recruiter.hash
              /\ meets =>
                    \A password \in Passwords :
                        check_password(recruiter.build, recruiter'.hash, password) = "accepted"
                            <=> password = run.new]_vars

====
